---------------------------- MODULE Spec2Model ----------------------------
(***************************************************************************)
(* Model of src/streamlit_app.py: the Streamlit dashboard that joins four  *)
(* parquet tables (load_data), renders the Exploratory Data Analysis page, *)
(* runs free-text SQL against an in-memory SQLite copy of the joined table *)
(* (execute_sql) and shows the GenAI Assistant page.                       *)
(*                                                                         *)
(* A table is a record [cols, rows]: cols the ordered column names, rows   *)
(* a sequence of rows, each a sequence of cells aligned with cols.  Every  *)
(* cell is a string carrying its type: "i0"/"i1" integers, "bF"/"bT"       *)
(* booleans, "NaN" the missing value, any other string a text value.       *)
(*                                                                         *)
(* Each browser session runs the script top to bottom on every             *)
(* interaction, in its own thread and with its own module globals          *)
(* (data, page, query, ...); the st.cache_data memos are process-wide.     *)
(* The steps of execute_sql calls of different sessions interleave freely; *)
(* a runtime that serialises the computations of one memoised function     *)
(* shows a subset of these behaviours.                                     *)
(*                                                                         *)
(* Lines 171-208 of the file are indented inconsistently; the model takes  *)
(* the statements in textual order under the branch structure              *)
(*   if page == "Exploratory Data Analysis" ...                            *)
(*   elif page == "SQL Query Interface" ...                                *)
(*   elif page == "GenAI Assistant" ...                                    *)
(* and the page values the sidebar radio of line 28 can produce.           *)
(***************************************************************************)
EXTENDS Integers, Sequences, FiniteSets, TLC

VARIABLES
    files,        \* the four parquet files: [fact, client, contact, campaign]
    loadCache,    \* st.cache_data memo of load_data(): None or the joined table
    sqlCache,     \* st.cache_data memo of execute_sql: query -> None or [result, error]
    conns,        \* every sqlite3 connection opened so far, in order of creation
    page,         \* per session: the sidebar radio's value in the current run
    pc,           \* per session: position of the current script run
    data,         \* per session: the module global `data` of the current run
    query,        \* per session: the text_area value passed to execute_sql
    con,          \* per session: execute_sql's local `con` of the call whose
                  \* result the run has not displayed yet (0: unbound)
    result,       \* per session: the table execute_sql returned (None before)
    error,        \* per session: the st.error message of the call (None: none)
    raised,       \* per session: an exception escaped the script run
    rendered,     \* per session: the views of the page rendered so far
    question,     \* per session: the assistant page's text_input value
    executed,     \* per session: the queries passed to execute_sql in this run
    csv,          \* per session: the text handed to the download button
    firstResult   \* history: query -> the first result execute_sql returned for it

vars == <<files, loadCache, sqlCache, conns, page, pc, data, query, con,
          result, error, raised, rendered, question, executed, csv, firstResult>>

(* Python's None where a table is expected, and the relation 'data' of a   *)
(* store after DROP TABLE.                                                 *)
None == [none |-> TRUE]

Dropped == [dropped |-> TRUE]

NoError == ""

---------------------------------------------------------------------------
(* Bounds of the model.                                                    *)

MaxFact == 2      \* rows of the fact table in the join inputs
MaxDim == 2       \* rows of each dimension table in the join inputs
MaxConns == 2     \* sqlite3 connections opened in one behaviour

Sessions == {"s1", "s2"}
FactIds == {"1", "2"}

---------------------------------------------------------------------------
(* Tables.                                                                 *)

NaN == "NaN"

EmptyTable == [cols |-> <<>>, rows |-> <<>>]

IsTable(t) == t # None /\ t # Dropped

HasColumn(t, c) == \E i \in 1..Len(t.cols) : t.cols[i] = c

ColIndex(cols, c) == CHOOSE i \in 1..Len(cols) : cols[i] = c

Column(t, c) == [r \in 1..Len(t.rows) |-> t.rows[r][ColIndex(t.cols, c)]]

RECURSIVE Flatten(_)
Flatten(ss) == IF ss = <<>> THEN <<>> ELSE Head(ss) \o Flatten(Tail(ss))

DropAt(seq, i) == [k \in 1..(Len(seq) - 1) |-> IF k < i THEN seq[k] ELSE seq[k + 1]]

(* pandas DataFrame.merge(right, on="fact_id", how="left"): every left row *)
(* in order; one output row per right row with the same key, in the right  *)
(* table's order, or one row padded with NaN when there is none.           *)
MatchesOf(l, left, right) ==
    LET kl == ColIndex(left.cols, "fact_id")
        kr == ColIndex(right.cols, "fact_id")
    IN  SelectSeq(right.rows, LAMBDA r : r[kr] = l[kl])

(* The same merge with how="inner": left rows without a match are dropped. *)
MergeInner(left, right) ==
    LET kr == ColIndex(right.cols, "fact_id")
        out(l) == LET m == MatchesOf(l, left, right)
                  IN  [j \in 1..Len(m) |-> l \o DropAt(m[j], kr)]
    IN  [cols |-> left.cols \o DropAt(right.cols, kr),
         rows |-> Flatten([i \in 1..Len(left.rows) |-> out(left.rows[i])])]

Merge(left, right) ==
    LET kr == ColIndex(right.cols, "fact_id")
        pad == [k \in 1..(Len(right.cols) - 1) |-> NaN]
        out(l) == LET m == MatchesOf(l, left, right)
                  IN  IF m = <<>> THEN << l \o pad >>
                      ELSE [j \in 1..Len(m) |-> l \o DropAt(m[j], kr)]
    IN  [cols |-> left.cols \o DropAt(right.cols, kr),
         rows |-> Flatten([i \in 1..Len(left.rows) |-> out(left.rows[i])])]

load_data(f) == Merge(Merge(Merge(f.fact, f.client), f.contact), f.campaign)

---------------------------------------------------------------------------
(* The parquet files.                                                      *)

SeqsUpTo(S, n) == UNION {[1..k -> S] : k \in 0..n}

(* Join inputs: a fact table of up to MaxFact rows and three dimension     *)
(* tables of up to MaxDim rows each, every row keyed by a fact_id that may *)
(* repeat or be absent; a dimension row's payload is its own row tag.      *)
RowTag(i) == <<"r1", "r2", "r3", "r4", "r5">>[i]

FactTable(rows) == [cols |-> <<"fact_id", "subscribed">>, rows |-> rows]

(* The fact rows of the join inputs: fact 1 subscribed, fact 2 did not.    *)
FactRow(k) == <<k, IF k = "1" THEN "i1" ELSE "i0">>

DimTable(name, keys) ==
    [cols |-> <<"fact_id", name>>,
     rows |-> [i \in 1..Len(keys) |-> <<keys[i], RowTag(i)>>]]

JoinFiles ==
    {[fact |-> FactTable([i \in 1..Len(f) |-> FactRow(f[i])]),
      client |-> DimTable("age_group", c),
      contact |-> DimTable("month", t), campaign |-> DimTable("campaign", g)] :
        f \in SeqsUpTo(FactIds, MaxFact),
        c \in SeqsUpTo(FactIds, MaxDim),
        t \in SeqsUpTo(FactIds, MaxDim),
        g \in SeqsUpTo(FactIds, MaxDim)}

(* The files the dashboard runs on: two fact rows whose 'subscribed' is    *)
(* stored as integers or as text, one client row, one contact row with or  *)
(* without a 'month' column, no campaign row.                              *)
SubscribedColumns == {<<"i1", "i0">>, <<"yes", "no">>}

AppFiles ==
    {[fact |-> FactTable(<< <<"1", sub[1]>>, <<"2", sub[2]>> >>),
      client |-> [cols |-> <<"fact_id", "age_group", "job", "education">>,
                  rows |-> << <<"1", "30-40", "admin", "primary">> >>],
      contact |-> IF hasMonth
                  THEN [cols |-> <<"fact_id", "month", "duration_length">>,
                        rows |-> << <<"1", "may", "long">> >>]
                  ELSE [cols |-> <<"fact_id", "duration_length">>,
                        rows |-> << <<"1", "long">> >>],
      campaign |-> [cols |-> <<"fact_id", "campaign">>, rows |-> <<>>]] :
        sub \in SubscribedColumns, hasMonth \in BOOLEAN}

---------------------------------------------------------------------------
(* Page 1: Exploratory Data Analysis (lines 31-167).                       *)

Pages == {"Exploratory Data Analysis", "SQL Query Interface", "GenAI Assistant"}

(* The views of the page in the order the script renders them.             *)
EdaViews == <<"preview", "summary", "age_group", "subscription", "duration",
              "month", "education", "age_group_rate", "job", "filter", "insights">>

(* The columns a view reads by name; a missing one raises KeyError (or     *)
(* plotly's ValueError), which nothing in the script catches.              *)
Needs(view) ==
    CASE view = "age_group"      -> {"age_group"}
      [] view = "subscription"   -> {"subscribed"}
      [] view = "duration"       -> {"subscribed", "duration_length"}
      [] view = "month"          -> {"month"}
      [] view = "education"      -> {"subscribed", "education"}
      [] view = "age_group_rate" -> {"subscribed", "age_group"}
      [] view = "job"            -> {"subscribed", "job"}
      [] view = "filter"         -> {"age_group"}
      [] OTHER                   -> {}

(* Series.astype(bool): zero, False and the empty string are False, every  *)
(* other value (NaN and non-empty text included) is True.                  *)
AstypeBool(c) == IF c \in {"i0", "bF", ""} THEN "bF" ELSE "bT"

(* data['subscribed'] = data['subscribed'].astype(bool)                    *)
SubscribedAsBool(d) ==
    LET k == ColIndex(d.cols, "subscribed")
    IN  [d EXCEPT !.rows = [r \in 1..Len(d.rows) |->
                              [d.rows[r] EXCEPT ![k] = AstypeBool(d.rows[r][k])]]]

(* Whether rendering the view raises: no view of the page has a try/except *)
(* or a column check around it.                                            *)
ViewRenders(d, view) == \A c \in Needs(view) : HasColumn(d, c)

(* One run of the page on table d: the views before the first one that     *)
(* raises, whether one raised, and the table as the run leaves it.  The    *)
(* reassignment of line 76 runs when the education view is reached, before *)
(* that view's groupby.                                                    *)
RenderEda(d) ==
    LET bad  == {i \in 1..Len(EdaViews) : ~ViewRenders(d, EdaViews[i])}
        stop == IF bad = {} THEN Len(EdaViews) + 1
                ELSE CHOOSE i \in bad : \A j \in bad : i <= j
        edu  == ColIndex(EdaViews, "education")
    IN  [rendered |-> {EdaViews[i] : i \in 1..(stop - 1)},
         failed   |-> stop <= Len(EdaViews),
         data     |-> IF stop >= edu /\ HasColumn(d, "subscribed")
                      THEN SubscribedAsBool(d) ELSE d]

---------------------------------------------------------------------------
(* Page 2: SQL Query Interface (lines 208-240).                            *)

DefaultQuery == "SELECT * FROM data LIMIT 10;"

(* The texts a user types into the text area.                              *)
Queries == {"", "SELEC * FORM data", DefaultQuery,
            "SELECT age_group, age_group FROM data", "DROP TABLE data"}

(* The read-only queries the engine accepts against relation 'data'.       *)
ValidQueries == {DefaultQuery, "SELECT age_group, age_group FROM data"}

(* DataFrame.to_sql: booleans are stored as INTEGER 0/1, NaN as NULL.      *)
ToSqlCell(c) ==
    CASE c = "bT" -> "i1" [] c = "bF" -> "i0" [] c = NaN -> "NULL" [] OTHER -> c

ToSqlTable(d) ==
    [cols |-> d.cols,
     rows |-> [r \in 1..Len(d.rows) |->
                 [k \in 1..Len(d.cols) |-> ToSqlCell(d.rows[r][k])]]]

(* pd.read_sql: NULL comes back as the missing value.                      *)
FromSqlCell(c) == IF c = "NULL" THEN NaN ELSE c

FromSqlRows(rows) ==
    [r \in 1..Len(rows) |-> [k \in 1..Len(rows[r]) |-> FromSqlCell(rows[r][k])]]

(* pd.read_sql(query, con) on a store whose relation 'data' is rel: the    *)
(* statement is executed, then the cursor's description gives the columns; *)
(* a statement that returns no result set leaves it None and pandas raises *)
(* TypeError.  rel is the relation after the statement.                    *)
Failure(msg, rel) == [ok |-> FALSE, error |-> msg, rel |-> rel, result |-> None]

Success(cols, rows, rel) ==
    [ok |-> TRUE, error |-> NoError, rel |-> rel,
     result |-> [cols |-> cols, rows |-> FromSqlRows(rows)]]

Limit(rows, n) == SubSeq(rows, 1, IF Len(rows) < n THEN Len(rows) ELSE n)

SelectQuery(q, rel) ==
    IF ~IsTable(rel) THEN Failure("no such table: data", rel)
    ELSE CASE q = DefaultQuery ->
                Success(rel.cols, Limit(rel.rows, 10), rel)
           [] q = "SELECT age_group, age_group FROM data" ->
                IF HasColumn(rel, "age_group")
                THEN Success(<<"age_group", "age_group">>,
                             [r \in 1..Len(rel.rows) |->
                                <<rel.rows[r][ColIndex(rel.cols, "age_group")],
                                  rel.rows[r][ColIndex(rel.cols, "age_group")]>>],
                             rel)
                ELSE Failure("no such column: age_group", rel)

RunQuery(q, rel) ==
    IF q \in ValidQueries THEN SelectQuery(q, rel)
    ELSE IF q = "" THEN Failure("TypeError", rel)
    ELSE IF q = "DROP TABLE data"
    THEN IF IsTable(rel) THEN Failure("TypeError", Dropped)
         ELSE Failure("no such table: data", rel)
    ELSE Failure("syntax error", rel)

(* except Exception as e: st.error(...); return pd.DataFrame()             *)
ExceptionEscapes(msg) == [raised |-> TRUE, error |-> NoError, result |-> None]

HandleException(msg) == [raised |-> FALSE, error |-> msg, result |-> EmptyTable]

(* sqlite3.connect(":memory:"): a new private database on every call.      *)
SharedConnection(cs) == 1

NewConnection(cs) == Len(cs) + 1

(* st.cache_data hands out a copy of the memoised value, so what a run     *)
(* does to its `data` never reaches the memo.                              *)
MemoShared(memo, d) == d

MemoAfterRun(memo, d) == memo

---------------------------------------------------------------------------
(* CSV export (line 234) and its re-parse.  A text is a sequence of lines, *)
(* a line the sequence of its fields; the line without fields is the blank *)
(* line.                                                                   *)

CsvField(c) == IF c = NaN THEN "" ELSE c

CsvRows(t) ==
    [r \in 1..Len(t.rows) |-> [k \in 1..Len(t.rows[r]) |-> CsvField(t.rows[r][k])]]

(* to_csv(index=False, header=False): the rows alone.                      *)
ToCsvNoHeader(t) == CsvRows(t)

(* DataFrame.to_csv(index=False): the column names, then one line per row. *)
(* A table without columns gives one blank line.                           *)
to_csv(t) == <<t.cols>> \o CsvRows(t)

(* pandas.read_csv of the text: blank lines are skipped, the first line    *)
(* left is the header, and a text without one raises EmptyDataError.  A    *)
(* repeated or empty name is renamed ("a.1", "Unnamed: 0"); renamed holds  *)
(* the positions of the names changed that way.                            *)
read_csv(text) ==
    LET lines == SelectSeq(text, LAMBDA l : l # <<>>)
    IN  IF lines = <<>>
        THEN [ok |-> FALSE, names |-> <<>>, renamed |-> {}, rows |-> <<>>]
        ELSE [ok |-> TRUE, names |-> lines[1],
              renamed |-> {i \in 1..Len(lines[1]) :
                             \/ lines[1][i] = ""
                             \/ \E j \in 1..(i - 1) : lines[1][j] = lines[1][i]},
              rows |-> Tail(lines)]

---------------------------------------------------------------------------
(* The phrase matchers.  A question is its sequence of words; a phrase is  *)
(* in it when its words occur there next to each other.                    *)

LowerWord(w) ==
    CASE w = "How" -> "how" [] w = "Show" -> "show" [] OTHER -> w

lower(words) == [i \in 1..Len(words) |-> LowerWord(words[i])]

In(phrase, words) ==
    \E i \in 0..(Len(words) - Len(phrase)) :
        \A k \in 1..Len(phrase) : words[i + k] = phrase[k]

(* lines 171-187                                                           *)
prompt_to_sql(prompt) ==
    LET p == lower(prompt)
    IN  CASE In(<<"campaign">>, p) /\ In(<<"age", "group">>, p) ->
               "SELECT * FROM data WHERE age_group = '30-40'"
          [] In(<<"show", "all", "data">>, p) \/ In(<<"all", "records">>, p) ->
               "SELECT * FROM data"
          [] In(<<"subscribed", "customers">>, p) ->
               "SELECT * FROM data WHERE subscribed = 1"
          [] In(<<"subscription", "rate", "by", "education">>, p) ->
               "SELECT education, AVG(subscribed) * 100 AS subscription_rate FROM data GROUP BY education"
          [] OTHER -> "SELECT * FROM data LIMIT 10"

(* lines 253-264                                                           *)
generate_sql(natural_query) ==
    LET q == lower(natural_query)
    IN  IF In(<<"clients", "over", "age">>, q)
        THEN "SELECT * FROM data WHERE age > 50"
        ELSE IF In(<<"subscription", "rate", "by", "job">>, q)
        THEN "SELECT job, AVG(CASE WHEN subscribed THEN 1 ELSE 0 END) * 100 AS subscription_rate FROM data GROUP BY job"
        ELSE IF In(<<"how", "many", "subscribed">>, q)
        THEN "SELECT COUNT(*) AS total_subscribed FROM data WHERE subscribed = 1"
        ELSE IF In(<<"subscription", "by", "education">>, q)
        THEN "SELECT education, COUNT(*) AS total, SUM(CASE WHEN subscribed THEN 1 ELSE 0 END) AS subscribed FROM data GROUP BY education"
        ELSE "SELECT * FROM data LIMIT*"

(* What a user types into the assistant's text input.                      *)
Questions == {<<>>, <<"How", "many", "subscribed">>, <<"hello">>}

---------------------------------------------------------------------------
(* The state after construction: the files on disk, nothing memoised, no   *)
(* connection, no session has run the script yet.                          *)

InitWith(f) ==
    /\ files = f
    /\ loadCache = None
    /\ sqlCache = [q \in Queries |-> None]
    /\ conns = <<>>
    /\ page = [s \in Sessions |-> ""]
    /\ pc = [s \in Sessions |-> "idle"]
    /\ data = [s \in Sessions |-> None]
    /\ query = [s \in Sessions |-> ""]
    /\ con = [s \in Sessions |-> 0]
    /\ result = [s \in Sessions |-> None]
    /\ error = [s \in Sessions |-> NoError]
    /\ raised = [s \in Sessions |-> FALSE]
    /\ rendered = [s \in Sessions |-> {}]
    /\ question = [s \in Sessions |-> <<>>]
    /\ executed = [s \in Sessions |-> <<>>]
    /\ csv = [s \in Sessions |-> <<>>]
    /\ firstResult = [q \in Queries |-> None]

Init == \E f \in AppFiles : InitWith(f)

JoinInit == \E f \in JoinFiles : InitWith(f)

(* load_data() with nothing memoised (lines 9-22).                         *)
LoadData ==
    /\ loadCache = None
    /\ loadCache' = load_data(files)
    /\ UNCHANGED <<files, sqlCache, conns, page, pc, data, query, con, result,
                   error, raised, rendered, question, executed, csv, firstResult>>

(* A session's interaction starts a script run: data = load_data() from    *)
(* the memo (filled on the first call), then the sidebar radio (24-28).    *)
ScriptStart(s, p) ==
    /\ pc[s] = "idle"
    /\ loadCache' = IF loadCache = None THEN load_data(files) ELSE loadCache
    /\ data' = [data EXCEPT ![s] = loadCache']
    /\ page' = [page EXCEPT ![s] = p]
    /\ pc' = [pc EXCEPT ![s] = "page"]
    /\ query' = [query EXCEPT ![s] = ""]
    /\ con' = [con EXCEPT ![s] = 0]
    /\ result' = [result EXCEPT ![s] = None]
    /\ error' = [error EXCEPT ![s] = NoError]
    /\ raised' = [raised EXCEPT ![s] = FALSE]
    /\ rendered' = [rendered EXCEPT ![s] = {}]
    /\ question' = [question EXCEPT ![s] = <<>>]
    /\ executed' = [executed EXCEPT ![s] = <<>>]
    /\ csv' = [csv EXCEPT ![s] = <<>>]
    /\ UNCHANGED <<files, sqlCache, conns, firstResult>>

(* lines 31-167                                                            *)
EdaPage(s) ==
    /\ pc[s] = "page" /\ page[s] = "Exploratory Data Analysis"
    /\ LET run == RenderEda(data[s])
       IN  /\ data' = [data EXCEPT ![s] = run.data]
           /\ rendered' = [rendered EXCEPT ![s] = run.rendered]
           /\ raised' = [raised EXCEPT ![s] = run.failed]
           /\ loadCache' = MemoAfterRun(loadCache, run.data)
    /\ pc' = [pc EXCEPT ![s] = "idle"]
    /\ UNCHANGED <<files, sqlCache, conns, page, query, con, result, error,
                   question, executed, csv, firstResult>>

(* lines 208-229: the text area, then `if query:` calls execute_sql, which *)
(* st.cache_data answers from its memo (replaying the st.error of the      *)
(* memoised call) when the query text was executed before.                 *)
SqlPage(s, q) ==
    /\ pc[s] = "page" /\ page[s] = "SQL Query Interface"
    /\ query' = [query EXCEPT ![s] = q]
    /\ rendered' = [rendered EXCEPT ![s] = {"title", "text_area"}]
    /\ IF q = ""
       THEN /\ pc' = [pc EXCEPT ![s] = "idle"]
            /\ UNCHANGED <<executed, result, error>>
       ELSE /\ executed' = [executed EXCEPT ![s] = Append(@, q)]
            /\ IF sqlCache[q] # None
               THEN /\ result' = [result EXCEPT ![s] = sqlCache[q].result]
                    /\ error' = [error EXCEPT ![s] = sqlCache[q].error]
                    /\ pc' = [pc EXCEPT ![s] = "show"]
               ELSE /\ pc' = [pc EXCEPT ![s] = "connect"]
                    /\ UNCHANGED <<result, error>>
    /\ UNCHANGED <<files, loadCache, sqlCache, conns, page, data, con, raised,
                   question, csv, firstResult>>

(* line 218                                                                *)
Connect(s) ==
    /\ pc[s] = "connect"
    /\ Len(conns) < MaxConns
    /\ LET c == NewConnection(conns)
       IN  /\ con' = [con EXCEPT ![s] = c]
           /\ conns' = IF c > Len(conns)
                       THEN Append(conns, [open |-> TRUE, rel |-> None, active |-> TRUE])
                       ELSE [conns EXCEPT ![c].open = TRUE, ![c].active = TRUE]
    /\ pc' = [pc EXCEPT ![s] = "to_sql"]
    /\ UNCHANGED <<files, loadCache, sqlCache, page, data, query, result, error,
                   raised, rendered, question, executed, csv, firstResult>>

(* line 219: if_exists='replace' overwrites whatever 'data' the store has. *)
ToSql(s) ==
    /\ pc[s] = "to_sql"
    /\ conns' = [conns EXCEPT ![con[s]].rel = ToSqlTable(data[s])]
    /\ pc' = [pc EXCEPT ![s] = "read_sql"]
    /\ UNCHANGED <<files, loadCache, sqlCache, page, data, query, con, result,
                   error, raised, rendered, question, executed, csv, firstResult>>

(* lines 220-225: read_sql, then close and return the result, or the       *)
(* except branch; st.cache_data memoises what the function returns.        *)
ReadSql(s) ==
    /\ pc[s] = "read_sql"
    /\ LET out == RunQuery(query[s], conns[con[s]].rel)
           got == IF out.ok
                  THEN [raised |-> FALSE, error |-> NoError, result |-> out.result]
                  ELSE HandleException(out.error)
       IN  /\ conns' = IF out.ok
                       THEN [conns EXCEPT ![con[s]] =
                                [open |-> FALSE, rel |-> None, active |-> FALSE]]
                       ELSE [conns EXCEPT ![con[s]].rel = out.rel,
                                          ![con[s]].active = FALSE]
           /\ result' = [result EXCEPT ![s] = got.result]
           /\ error' = [error EXCEPT ![s] = got.error]
           /\ raised' = [raised EXCEPT ![s] = got.raised]
           /\ IF got.raised
              THEN /\ pc' = [pc EXCEPT ![s] = "idle"]
                   /\ UNCHANGED <<sqlCache, firstResult>>
              ELSE /\ pc' = [pc EXCEPT ![s] = "show"]
                   /\ sqlCache' = [sqlCache EXCEPT ![query[s]] =
                                     [result |-> got.result, error |-> got.error]]
                   /\ firstResult' = IF firstResult[query[s]] = None
                                     THEN [firstResult EXCEPT ![query[s]] = got.result]
                                     ELSE firstResult
    /\ UNCHANGED <<files, loadCache, page, data, query, con, rendered, question,
                   executed, csv>>

(* lines 230-240: the preview and the download button's CSV text.          *)
Show(s) ==
    /\ pc[s] = "show"
    /\ rendered' = [rendered EXCEPT ![s] = @ \cup {"preview", "download"}]
    /\ csv' = [csv EXCEPT ![s] = to_csv(result[s])]
    /\ con' = [con EXCEPT ![s] = 0]
    /\ pc' = [pc EXCEPT ![s] = "idle"]
    /\ UNCHANGED <<files, loadCache, sqlCache, conns, page, data, query, result,
                   error, raised, question, executed, firstResult>>

(* lines 243-264: title, markdown, the text input and the definition of    *)
(* generate_sql; the file ends there.                                      *)
AssistantPage(s, uq) ==
    /\ pc[s] = "page" /\ page[s] = "GenAI Assistant"
    /\ question' = [question EXCEPT ![s] = uq]
    /\ rendered' = [rendered EXCEPT ![s] = {"title", "markdown", "text_input"}]
    /\ pc' = [pc EXCEPT ![s] = "idle"]
    /\ UNCHANGED <<files, loadCache, sqlCache, conns, page, data, query, con,
                   result, error, raised, executed, csv, firstResult>>

(* A connection execute_sql returned without closing is closed when the    *)
(* interpreter reclaims the Connection object, at a time of its choosing.  *)
Finalize(c) ==
    /\ conns[c].open /\ ~conns[c].active
    /\ conns' = [conns EXCEPT ![c] = [open |-> FALSE, rel |-> None, active |-> FALSE]]
    /\ UNCHANGED <<files, loadCache, sqlCache, page, pc, data, query, con, result,
                   error, raised, rendered, question, executed, csv, firstResult>>

Next ==
    \/ \E s \in Sessions, p \in Pages : ScriptStart(s, p)
    \/ \E s \in Sessions : EdaPage(s)
    \/ \E s \in Sessions, q \in Queries : SqlPage(s, q)
    \/ \E s \in Sessions : Connect(s)
    \/ \E s \in Sessions : ToSql(s)
    \/ \E s \in Sessions : ReadSql(s)
    \/ \E s \in Sessions : Show(s)
    \/ \E s \in Sessions, uq \in Questions : AssistantPage(s, uq)
    \/ \E c \in 1..Len(conns) : Finalize(c)

Spec == Init /\ [][Next]_vars

JoinNext == LoadData

JoinSpec == JoinInit /\ [][JoinNext]_vars

---------------------------------------------------------------------------
(* Properties.                                                             *)

InvalidQueries == Queries \ ValidQueries

Returned(s) == executed[s] # <<>> /\ pc[s] \in {"show", "idle"}

(* C1: execute_sql on a text that is not a valid query against 'data'      *)
(* (the empty text, a misspelled statement, a statement without a result   *)
(* set) lets no exception escape, returns the table without rows and       *)
(* reports an error message; the same holds of the function's body on      *)
(* every such text, the empty one included, over the working table.        *)
C1_NoCrashOnBadQuery ==
    /\ \A s \in Sessions :
         (Returned(s) /\ query[s] \in InvalidQueries) =>
            /\ ~raised[s]
            /\ result[s] = EmptyTable
            /\ error[s] # NoError
    /\ loadCache # None =>
         \A q \in InvalidQueries :
            LET out == RunQuery(q, ToSqlTable(loadCache))
            IN  /\ ~out.ok
                /\ ~HandleException(out.error).raised
                /\ HandleException(out.error).result = EmptyTable
                /\ HandleException(out.error).error # NoError

C1_Witness ==
    \E s \in Sessions :
        /\ query[s] = "SELEC * FORM data" /\ pc[s] = "show" /\ con[s] # 0
        /\ error[s] = "syntax error" /\ result[s] = EmptyTable

(* C2 as claimed: the working table has exactly as many rows as the fact   *)
(* table, whatever the dimension tables hold.                              *)
C2_RowCountEqualsFact ==
    loadCache # None => Len(loadCache.rows) = Len(files.fact.rows)

(* How often key k occurs in a dimension table.                            *)
KeyCount(t, k) ==
    Cardinality({i \in 1..Len(t.rows) : t.rows[i][ColIndex(t.cols, "fact_id")] = k})

UniqueKeys(t) == \A k \in FactIds : KeyCount(t, k) <= 1

Fan(t, k) == IF KeyCount(t, k) = 0 THEN 1 ELSE KeyCount(t, k)

RECURSIVE FanOut(_, _)
FanOut(f, i) ==
    IF i = 0 THEN 0
    ELSE LET k == f.fact.rows[i][ColIndex(f.fact.cols, "fact_id")]
         IN  FanOut(f, i - 1) + Fan(f.client, k) * Fan(f.contact, k) * Fan(f.campaign, k)

(* C2 amended: every fact row appears once for each combination of client, *)
(* contact and campaign rows carrying its fact_id (once where a table has  *)
(* none), so the working table has at least as many rows as the fact table *)
(* and exactly as many when no fact_id repeats in a dimension table.       *)
C2_LeftJoinRowCount ==
    loadCache # None =>
        /\ Len(loadCache.rows) = FanOut(files, Len(files.fact.rows))
        /\ Len(loadCache.rows) >= Len(files.fact.rows)
        /\ (UniqueKeys(files.client) /\ UniqueKeys(files.contact)
              /\ UniqueKeys(files.campaign))
             => Len(loadCache.rows) = Len(files.fact.rows)

C2_Witness ==
    /\ loadCache # None
    /\ files.campaign.rows = <<>>
    /\ ~UniqueKeys(files.client)
    /\ Len(files.fact.rows) = 2
    /\ Len(loadCache.rows) > Len(files.fact.rows)

(* C3: whatever pages were rendered, every session's working table is the  *)
(* one load_data returned: same columns, same types, same cells.           *)
C3_WorkingTableUnchanged ==
    \A s \in Sessions : data[s] # None => data[s] = loadCache

(* C4 as claimed: every call of execute_sql that has returned created a    *)
(* store of its own.                                                       *)
C4_EveryCallCreatesStore ==
    \A s \in Sessions : pc[s] = "show" => con[s] # 0

Answer(q, table) ==
    LET out == RunQuery(q, ToSqlTable(table))
    IN  [result |-> IF out.ok THEN out.result ELSE EmptyTable, error |-> out.error]

(* C4 amended: every call of execute_sql that st.cache_data does not       *)
(* answer from its memo opens a store no other call uses and loads the     *)
(* working table into it as 'data'; no statement of another call changes   *)
(* the relation it queries, and every call, memoised or not, returns what  *)
(* its own query gives on the working table.                               *)
C4_StoresIsolated ==
    /\ \A s \in Sessions :
         pc[s] \in {"to_sql", "read_sql"} =>
            /\ con[s] \in 1..Len(conns)
            /\ conns[con[s]].open
    /\ \A s, t \in Sessions : (s # t /\ con[s] # 0) => con[s] # con[t]
    /\ \A s \in Sessions :
         pc[s] = "read_sql" => conns[con[s]].rel = ToSqlTable(loadCache)
    /\ \A s \in Sessions :
         pc[s] = "show" =>
            /\ result[s] = Answer(query[s], loadCache).result
            /\ error[s] = Answer(query[s], loadCache).error

C4_Witness ==
    \E s, t \in Sessions :
        /\ s # t
        /\ pc[s] = "read_sql" /\ conns[con[s]].rel = ToSqlTable(loadCache)
        /\ query[t] = "DROP TABLE data" /\ pc[t] = "show" /\ con[t] # 0
        /\ conns[con[t]].rel = Dropped

(* The label of a 'subscribed' value within its column.                    *)
LabelOf(col, v) ==
    IF \A i \in 1..Len(col) : col[i] \in {"i0", "i1"}
    THEN (IF v = "i1" THEN "Subscribed" ELSE "Not Subscribed")
    ELSE CASE v = "yes" -> "Yes" [] v = "no" -> "No" [] OTHER -> v

(* C5: the working table has a column subscribed_label whose value in each *)
(* row is the label of that row's 'subscribed' value.                      *)
C5_SubscribedLabel ==
    loadCache # None =>
        IF HasColumn(loadCache, "subscribed_label")
        THEN \A r \in 1..Len(loadCache.rows) :
                Column(loadCache, "subscribed_label")[r]
                  = LabelOf(Column(loadCache, "subscribed"),
                            Column(loadCache, "subscribed")[r])
        ELSE FALSE

(* C6: every execution of a valid read-only query returns the table its    *)
(* first execution returned, whatever ran in between.                      *)
C6_SameQuerySameResult ==
    \A s \in Sessions :
        (Returned(s) /\ ~raised[s] /\ query[s] \in ValidQueries) =>
            result[s] = firstResult[query[s]]

(* A repeated valid query is on display, unchanged, while the other        *)
(* session has rendered the EDA page and turned its 'subscribed' boolean.  *)
C6_Witness ==
    \E s, t \in Sessions :
        /\ s # t
        /\ query[s] \in ValidQueries /\ pc[s] = "show" /\ con[s] = 0
        /\ Len(result[s].rows) > 0
        /\ page[t] = "Exploratory Data Analysis" /\ pc[t] = "idle"
        /\ data[t] # loadCache

DistinctNames(cols) ==
    \A i, j \in 1..Len(cols) : cols[i] # "" /\ (cols[i] = cols[j] => i = j)

Reproduces(text, t) ==
    LET back == read_csv(text)
    IN  /\ back.ok
        /\ back.renamed = {}
        /\ back.names = t.cols
        /\ Len(back.rows) = Len(t.rows)

Exported(s) == "download" \in rendered[s]

C8_MonthMissingDegradesOnly ==
    \A s \in Sessions :
        (/\ page[s] = "Exploratory Data Analysis" /\ pc[s] = "idle"
         /\ ~HasColumn(data[s], "month")) =>
            /\ ~raised[s]
            /\ rendered[s] = {EdaViews[i] : i \in 1..Len(EdaViews)} \ {"month"}

AssistedPages == {"Natural Language SQL", "GenAI Assistant"}

MatchedQuery(p, words) ==
    IF p = "Natural Language SQL" THEN prompt_to_sql(words) ELSE generate_sql(words)

(* C9: a run of an assisted-query page on a non-empty question executes    *)
(* exactly one query, the one the phrase matcher gives for the question.   *)
C9_QuestionExecuted ==
    \A s \in Sessions :
        (page[s] \in AssistedPages /\ pc[s] = "idle" /\ question[s] # <<>>) =>
            executed[s] = <<MatchedQuery(page[s], question[s])>>

(* C10: no connection opened by a call of execute_sql that has returned is *)
(* still open.                                                             *)
C10_ConnectionsClosed ==
    \A c \in 1..Len(conns) : ~conns[c].active => ~conns[c].open

===========================================================================
